---- MODULE Spec2Model ----
(***************************************************************************)
(* Model of src/main.py of the adaptive study planner: the in-memory       *)
(* USER_STATE with its tool functions, and generate_schedule, the greedy   *)
(* time-blocking scheduler.                                                *)
(*                                                                         *)
(* Representation.  A datetime is the number of seconds since 00:00:00 of  *)
(* day 0 (microseconds are dropped).  An ISO-8601 text is the record of    *)
(* its fields [day, hh, mm, ss]; a text whose fields are out of range is   *)
(* one that datetime.fromisoformat rejects.  Quantities the code holds in  *)
(* minutes as floats (remaining, session_minutes, block["minutes"]) are    *)
(* held in seconds, i.e. sixtieths of a minute, so that 30.6 minutes is    *)
(* exact; estimated_hours is held in hundredths of an hour.  A dict is a   *)
(* function whose DOMAIN is the set of keys present.                       *)
(***************************************************************************)
EXTENDS Integers, Sequences, FiniteSets, TLC

VARIABLES
    USER_STATE,     \* the module-level dict: profile, tasks, plans
    last_call,      \* name of the tool function that ran last
    tasks,          \* generate_schedule: argument
    profile,        \* generate_schedule: argument
    now,            \* generate_schedule: datetime.now() at line 83
    sorted_tasks,   \* generate_schedule: local
    plan,           \* generate_schedule: local
    current,        \* generate_schedule: local, the cursor
    idx,            \* generate_schedule: position of the for loop in sorted_tasks
    remaining,      \* generate_schedule: local
    due,            \* generate_schedule: local
    pc,             \* generate_schedule: control point
    result,         \* generate_schedule: the returned list
    hours_ahead,    \* get_upcoming_blocks: argument
    q_now,          \* get_upcoming_blocks: local now
    horizon,        \* get_upcoming_blocks: local
    upcoming,       \* get_upcoming_blocks: local and return value
    q_pc,           \* get_upcoming_blocks: outcome of the last call
    preferences,    \* save_profile: argument
    plan_arg        \* save_plan: argument (named plan in the code)

query_vars == <<hours_ahead, q_now, horizon, upcoming, q_pc>>

run_vars == <<tasks, profile, now, sorted_tasks, plan, current, idx, remaining, due, pc, result>>

arg_vars == <<preferences, plan_arg>>

vars == <<USER_STATE, last_call, tasks, profile, now, sorted_tasks, plan, current, idx,
          remaining, due, pc, result, hours_ahead, q_now, horizon, upcoming, q_pc,
          preferences, plan_arg>>

----------------------------------------------------------------------------
(* Bounds of the model *)

MaxTasks == 2

MaxPlan == 3

MaxStored == 2

----------------------------------------------------------------------------
(* datetime, timedelta and ISO text *)

At(d, h, m, s) == ((d * 24 + h) * 60 + m) * 60 + s

td_minutes(n) == n * 60

td_hours(n) == n * 3600

td_days(n) == n * 86400

HourOf(t) == (t \div 3600) % 24

DayStart(t) == t - (t % 86400)

ReplaceHourOnly(t, h) == t - HourOf(t) * 3600 + h * 3600

Replace(t, h) == DayStart(t) + h * 3600

ReplaceRaises(h) == h \notin 0..23

isoformat(t) ==
    [day |-> t \div 86400, hh |-> HourOf(t), mm |-> (t \div 60) % 60, ss |-> t % 60]

IsIsoText(x) ==
    /\ x.day >= 0
    /\ x.hh \in 0..23
    /\ x.mm \in 0..59
    /\ x.ss \in 0..59

fromisoformat(x) == At(x.day, x.hh, x.mm, x.ss)

Get(d, k, default) == IF k \in DOMAIN d THEN d[k] ELSE default

Min(a, b) == IF a < b THEN a ELSE b

Range(s) == {s[i] : i \in DOMAIN s}

----------------------------------------------------------------------------
(* generate_schedule: locals read from the profile, lines 79-81 *)

daily_start == Get(profile, "daily_start_hour", 8)

daily_end == Get(profile, "daily_end_hour", 22)

max_session == td_minutes(Get(profile, "max_session_minutes", 50))

(* the sort of lines 84-87: a stable sort on (due, -priority) *)

SortKeyAscendingPriority(t) == <<fromisoformat(t["due"]), Get(t, "priority", 3)>>

SortKey(t) == <<fromisoformat(t["due"]), 0 - Get(t, "priority", 3)>>

KeyLess(a, b) == a[1] < b[1] \/ (a[1] = b[1] /\ a[2] < b[2])

RECURSIVE Insert(_, _)
Insert(s, t) ==
    IF s = <<>> THEN <<t>>
    ELSE IF KeyLess(SortKey(t), SortKey(Head(s))) THEN <<t>> \o s
    ELSE <<Head(s)>> \o Insert(Tail(s), t)

RECURSIVE sorted(_)
sorted(ts) ==
    IF ts = <<>> THEN <<>>
    ELSE Insert(sorted(SubSeq(ts, 1, Len(ts) - 1)), ts[Len(ts)])

SortRaisesNever(ts) == FALSE

SortRaises(ts) == \E i \in DOMAIN ts : ~IsIsoText(ts[i]["due"])

EstimatedMinutes(task) == Get(task, "estimated_hours", 100) * 36

(* the while loop of lines 96-120 *)

\* sorted() builds a new list: the list passed in keeps its content and order
ListSortedInPlace(ts) == IF SortRaises(ts) THEN ts ELSE sorted(ts)

ListAfterSorted(ts) == ts

InitialCursorMidnight(t) == DayStart(t)

InitialCursor(t) == t

LoopGuardRemainingOnly(rem, cur, d) == rem > 0

LoopGuard(rem, cur, d) == rem > 0 /\ cur < d

SnapRaises(cur) ==
    (HourOf(cur) < daily_start \/ HourOf(cur) >= daily_end) /\ ReplaceRaises(daily_start)

SnapSameDay(cur) ==
    IF HourOf(cur) < daily_start THEN Replace(cur, daily_start)
    ELSE IF HourOf(cur) >= daily_end THEN Replace(cur, daily_start)
    ELSE cur

SnapMorningOnly(cur) ==
    IF HourOf(cur) < daily_start THEN Replace(cur, daily_start)
    ELSE cur

Snap(cur) ==
    IF HourOf(cur) < daily_start THEN Replace(cur, daily_start)
    ELSE IF HourOf(cur) >= daily_end THEN Replace(cur + td_days(1), daily_start)
    ELSE cur

SessionMinutesFull(rem) == max_session

SessionMinutes(rem) == Min(max_session, rem)

OverrunsAtStart(cur, end, d) == cur > d

Overruns(cur, end, d) == end > d

RestGapNone == td_minutes(0)

RestGap == td_minutes(10)

Block(task, cur, end, session_minutes) ==
    [title |-> task["title"],
     subject |-> Get(task, "subject", ""),
     start |-> isoformat(cur),
     end |-> isoformat(end),
     minutes |-> session_minutes]

(* the stores, lines 20-33 *)

dict_replace(old, new) == new

dict_update(old, new) ==
    [k \in DOMAIN old \cup DOMAIN new |-> IF k \in DOMAIN new THEN new[k] ELSE old[k]]

PlansExtended(old, p) == old \o p

PlansAfterSave(old, p) == p

(* get_upcoming_blocks: the test of line 41 and the loop of lines 38-42 *)

InHorizonExclusive(start, n, h) == n <= start /\ start < h

InHorizon(start, n, h) == n <= start /\ start <= h

RECURSIVE UpcomingLoop(_, _, _)
UpcomingLoop(blocks, n, h) ==
    IF blocks = << >> THEN << >>
    ELSE (IF InHorizon(fromisoformat(Head(blocks)["start"]), n, h)
          THEN <<Head(blocks)>> ELSE << >>) \o UpcomingLoop(Tail(blocks), n, h)

UpcomingRaises(blocks) == \E i \in DOMAIN blocks : ~IsIsoText(blocks[i]["start"])

----------------------------------------------------------------------------
(* Inputs *)

Titles == <<"T1", "T2", "T3", "T4">>

Noon == [day |-> 0, hh |-> 12, mm |-> 0, ss |-> 0]

NextMorning == [day |-> 1, hh |-> 10, mm |-> 0, ss |-> 0]

TaskBodies ==
    { [due |-> Noon],
      [due |-> Noon, estimated_hours |-> 51, priority |-> 5],
      [due |-> Noon, estimated_hours |-> 200, priority |-> 1],
      [due |-> NextMorning, estimated_hours |-> 200],
      [due |-> NextMorning, estimated_hours |-> 0, priority |-> 3],
      [due |-> [day |-> 0, hh |-> 8, mm |-> 30, ss |-> 0], estimated_hours |-> 100, priority |-> 2],
      [due |-> [day |-> 0, hh |-> 25, mm |-> 0, ss |-> 0], estimated_hours |-> 100] }

MkTask(body, i) ==
    [k \in DOMAIN body \cup {"title"} |-> IF k = "title" THEN Titles[i] ELSE body[k]]

TaskLists ==
    UNION { { [i \in 1..n |-> MkTask(f[i], i)] : f \in [1..n -> TaskBodies] } : n \in 0..MaxTasks }

Profiles ==
    { << >>,
      [daily_start_hour |-> 9, daily_end_hour |-> 11, max_session_minutes |-> 45],
      [daily_start_hour |-> 10, daily_end_hour |-> 8],
      [daily_start_hour |-> 24],
      [daily_start_hour |-> 0 - 1, daily_end_hour |-> 25] }

Nows == { At(0, 7, 30, 0), At(0, 9, 0, 0), At(0, 9, 0, 30), At(0, 21, 30, 0), At(0, 22, 30, 0) }

\* plans handed to save_plan: blocks as generate_schedule builds them, starting
\* at, before, 24 hours after and 25 hours after the clock values of the
\* queries, and one block whose start is not a timestamp
PlanBlocks ==
    { Block([title |-> "T1"], s, s + td_minutes(50), td_minutes(50)) :
        s \in {At(0, 8, 0, 0), At(1, 9, 0, 30), At(1, 10, 0, 30)} }
    \cup { [title |-> "T1", subject |-> "", start |-> [day |-> 0, hh |-> 9, mm |-> 61, ss |-> 0],
             end |-> isoformat(At(0, 10, 0, 0)), minutes |-> td_minutes(50)] }

PlanArgs == UNION { [1..n -> PlanBlocks] : n \in 0..MaxPlan }

QueryNows == { At(0, 8, 0, 0), At(0, 9, 0, 30) }

HoursAhead == { 1, 24 }

\* arguments of the tool calls when all the operations are interleaved
PrefArgs ==
    { [daily_start_hour |-> 9],
      [daily_start_hour |-> 7, max_session_minutes |-> 45],
      [daily_end_hour |-> 20] }

TaskArgs ==
    { [title |-> "T1", due |-> NextMorning, estimated_hours |-> 100],
      [title |-> "T2", due |-> Noon, priority |-> 2] }

ProgramPlans ==
    { << >>,
      <<Block([title |-> "T1"], At(1, 9, 0, 30), At(1, 9, 50, 30), td_minutes(50))>>,
      <<Block([title |-> "T2"], At(0, 8, 0, 0), At(0, 8, 50, 0), td_minutes(50))>> }

ProgramNows == { At(0, 9, 0, 30) }

ValidProfile ==
    /\ daily_start \in 0..23
    /\ daily_end \in 0..23
    /\ daily_start < daily_end
    /\ max_session > 0

----------------------------------------------------------------------------
(* Initial state: the module has been imported, nothing has been called *)

Init ==
    /\ USER_STATE = [profile |-> << >>, tasks |-> << >>, plans |-> << >>]
    /\ last_call = "none"
    /\ tasks = << >>
    /\ profile = << >>
    /\ now = 0
    /\ sorted_tasks = << >>
    /\ plan = << >>
    /\ current = 0
    /\ idx = 0
    /\ remaining = 0
    /\ due = 0
    /\ pc = "idle"
    /\ result = << >>
    /\ hours_ahead = 0
    /\ q_now = 0
    /\ horizon = 0
    /\ upcoming = << >>
    /\ q_pc = "none"
    /\ preferences = << >>
    /\ plan_arg = << >>

----------------------------------------------------------------------------
(* generate_schedule(tasks, profile), lines 77-122 *)

\* lines 77-90: bind the arguments, read the clock, sort, start with an empty plan.
\* A call reads nothing that an earlier call left behind (every local is bound
\* anew), so a behaviour follows one call from the idle state to its outcome.
CallEffect(ts, pr, t) ==
    /\ tasks' = ListAfterSorted(ts)
    /\ profile' = pr
    /\ now' = t
    /\ last_call' = "generate_schedule"
    /\ plan' = << >>
    /\ result' = << >>
    /\ idx' = 0
    /\ remaining' = 0
    /\ due' = 0
    /\ IF SortRaises(ts)
       THEN /\ pc' = "raised"
            /\ sorted_tasks' = << >>
            /\ current' = 0
       ELSE /\ pc' = "for"
            /\ sorted_tasks' = sorted(ts)
            /\ current' = InitialCursor(t)
    /\ UNCHANGED <<query_vars, arg_vars>>

Call(ts, pr, t) ==
    /\ pc = "idle"
    /\ CallEffect(ts, pr, t)
    /\ UNCHANGED USER_STATE

\* lines 92-94 and 122: take the next task, or return the plan
ForStep ==
    /\ pc = "for"
    /\ IF idx < Len(sorted_tasks)
       THEN /\ idx' = idx + 1
            /\ remaining' = EstimatedMinutes(sorted_tasks[idx + 1])
            /\ due' = fromisoformat(sorted_tasks[idx + 1]["due"])
            /\ pc' = "while"
            /\ UNCHANGED result
       ELSE /\ pc' = "returned"
            /\ result' = plan
            /\ UNCHANGED <<idx, remaining, due>>
    /\ UNCHANGED <<USER_STATE, last_call, tasks, profile, now, sorted_tasks, plan, current,
                   query_vars, arg_vars>>

\* lines 96-120: one test of the while guard and, if it holds, one iteration
WhileStep ==
    /\ pc = "while"
    /\ IF ~LoopGuard(remaining, current, due)
       THEN /\ pc' = "for"
            /\ UNCHANGED <<plan, current, remaining>>
       ELSE IF SnapRaises(current)
       THEN /\ pc' = "raised"
            /\ UNCHANGED <<plan, current, remaining>>
       ELSE LET cur == Snap(current)
                session_minutes == SessionMinutes(remaining)
                end == cur + session_minutes
            IN  IF Overruns(cur, end, due)
                THEN /\ pc' = "for"
                     /\ current' = cur
                     /\ UNCHANGED <<plan, remaining>>
                ELSE /\ plan' = Append(plan, Block(sorted_tasks[idx], cur, end, session_minutes))
                     /\ remaining' = remaining - session_minutes
                     /\ current' = end + RestGap
                     /\ pc' = "while"
    /\ UNCHANGED <<USER_STATE, last_call, tasks, profile, now, sorted_tasks, idx, due, result,
                   query_vars, arg_vars>>

generate_schedule ==
    \/ \E ts \in TaskLists, pr \in Profiles, t \in Nows : Call(ts, pr, t)
    \/ ForStep
    \/ WhileStep

Next == generate_schedule

----------------------------------------------------------------------------
(* The plan store, lines 31-43 *)

save_plan(p) ==
    /\ plan_arg' = p
    /\ USER_STATE' = [USER_STATE EXCEPT !["plans"] = PlansAfterSave(@, p)]
    /\ last_call' = "save_plan"
    /\ UNCHANGED <<run_vars, query_vars, preferences>>

\* t is the value datetime.now() returns at line 36
get_upcoming_blocks(h, t) ==
    /\ hours_ahead' = h
    /\ q_now' = t
    /\ horizon' = t + td_hours(h)
    /\ IF UpcomingRaises(USER_STATE["plans"])
       THEN /\ q_pc' = "raised"
            /\ upcoming' = << >>
       ELSE /\ q_pc' = "returned"
            /\ upcoming' = UpcomingLoop(USER_STATE["plans"], t, t + td_hours(h))
    /\ last_call' = "get_upcoming_blocks"
    /\ UNCHANGED <<USER_STATE, run_vars, arg_vars>>

StoreNext ==
    \/ \E p \in PlanArgs : save_plan(p)
    \/ \E h \in HoursAhead, t \in QueryNows : get_upcoming_blocks(h, t)

StoreSpec == Init /\ [][StoreNext]_vars

Spec == Init /\ [][Next]_vars

----------------------------------------------------------------------------
(* The whole program: the tool functions called one after another *)

save_profile(prefs) ==
    /\ preferences' = prefs
    /\ USER_STATE' = [USER_STATE EXCEPT !["profile"] = dict_update(@, prefs)]
    /\ last_call' = "save_profile"
    /\ UNCHANGED <<run_vars, query_vars, plan_arg>>

add_task(task) ==
    /\ Len(USER_STATE["tasks"]) < MaxStored
    /\ USER_STATE' = [USER_STATE EXCEPT !["tasks"] = Append(@, task)]
    /\ last_call' = "add_task"
    /\ UNCHANGED <<run_vars, query_vars, arg_vars>>

\* generate_schedule called as the agents are told to: with list_tasks(), which
\* is the stored list itself (line 29), and the stored profile.  The arguments
\* are the stored objects, so what the call does to them shows in USER_STATE.
CallStored(t) ==
    /\ pc = "idle"
    /\ CallEffect(USER_STATE["tasks"], USER_STATE["profile"], t)
    /\ USER_STATE' = [USER_STATE EXCEPT !["tasks"] = tasks', !["profile"] = profile']

\* the call is over: its frame is gone
EndCall ==
    /\ pc \in {"returned", "raised"}
    /\ pc' = "idle"
    /\ tasks' = << >>
    /\ profile' = << >>
    /\ now' = 0
    /\ sorted_tasks' = << >>
    /\ plan' = << >>
    /\ current' = 0
    /\ idx' = 0
    /\ remaining' = 0
    /\ due' = 0
    /\ result' = << >>
    /\ UNCHANGED <<USER_STATE, last_call, query_vars, arg_vars>>

\* the program is single-threaded: a tool function runs only between calls
ProgramNext ==
    \/ pc = "idle" /\ \E prefs \in PrefArgs : save_profile(prefs)
    \/ pc = "idle" /\ \E task \in TaskArgs : add_task(task)
    \/ pc = "idle" /\ \E p \in ProgramPlans : save_plan(p)
    \/ pc = "returned" /\ save_plan(result)
    \/ pc = "idle" /\ \E t \in ProgramNows : get_upcoming_blocks(24, t)
    \/ \E t \in ProgramNows : CallStored(t)
    \/ ForStep
    \/ WhileStep
    \/ EndCall

ProgramSpec == Init /\ [][ProgramNext]_vars

\* generate_schedule is a synchronous function: once called, it keeps running
FairSpec == Spec /\ WF_vars(ForStep) /\ WF_vars(WhileStep)

----------------------------------------------------------------------------
(* Properties of generate_schedule *)

StartOf(b) == fromisoformat(b["start"])

EndOf(b) == fromisoformat(b["end"])

\* titles are distinct in the task lists of the model, so a block's title names its task
TaskOf(title) == CHOOSE t \in Range(tasks) : t["title"] = title

DueOf(t) == fromisoformat(t["due"])

PriorityOf(t) == IF "priority" \in DOMAIN t THEN t["priority"] ELSE 3

EstimateOf(t) == IF "estimated_hours" \in DOMAIN t THEN t["estimated_hours"] * 36 ELSE 3600

RECURSIVE ScheduledIn(_, _)
ScheduledIn(p, title) ==
    IF p = << >> THEN 0
    ELSE (IF Head(p)["title"] = title THEN Head(p)["minutes"] ELSE 0) + ScheduledIn(Tail(p), title)

HasBlock(title) == \E i \in DOMAIN plan : plan[i]["title"] = title

\* C1: with a valid profile, consecutive blocks of the plan are in chronological
\* order and at least 10 minutes apart, whichever tasks they belong to.
C1_NonOverlap ==
    ValidProfile =>
        \A i \in 1..(Len(plan) - 1) : EndOf(plan[i]) + 600 <= StartOf(plan[i + 1])

C1_Witness ==
    /\ pc = "returned"
    /\ ValidProfile
    /\ \E i \in 1..(Len(result) - 1) : result[i]["title"] # result[i + 1]["title"]
    /\ \E i \in 1..(Len(result) - 1) : result[i]["title"] = result[i + 1]["title"]

\* C2: every block ends at or before the due time of the task it was emitted for.
C2_DeadlineRespect ==
    \A i \in DOMAIN plan : EndOf(plan[i]) <= DueOf(TaskOf(plan[i]["title"]))

\* the first block was placed after the cursor was snapped forward from now
C2_Witness ==
    /\ pc = "returned"
    /\ Len(result) >= 1
    /\ StartOf(result[1]) > now
    /\ HourOf(now) >= daily_end

\* C3: every block ends no later than daily_end_hour:00 of the day it starts on.
C3_EndsInsideWindow ==
    ValidProfile =>
        \A i \in DOMAIN plan :
            EndOf(plan[i]) <= DayStart(StartOf(plan[i])) + daily_end * 3600

\* C4: with a valid profile, the hour of day of every block's start lies in
\* [daily_start_hour, daily_end_hour).
C4_StartInsideWindow ==
    ValidProfile =>
        \A i \in DOMAIN plan :
            /\ daily_start <= plan[i]["start"].hh
            /\ plan[i]["start"].hh < daily_end

\* now was at or after daily_end_hour: the first block starts on the next day
C4_Witness ==
    /\ pc = "returned"
    /\ ValidProfile
    /\ HourOf(now) >= daily_end
    /\ Len(result) >= 2
    /\ result[1]["start"].day = 1


\* C5: a task never gets more minutes than its estimate, and when the loop of a
\* task has been left with less than the estimate scheduled, the cursor has
\* reached due or the next session placed at the cursor would end after due.
C5_ConservationOrTruncation ==
    /\ \A i \in DOMAIN tasks :
           ScheduledIn(plan, tasks[i]["title"]) <= EstimateOf(tasks[i])
    /\ (pc \in {"for", "returned"} /\ idx >= 1) =>
           LET t == sorted_tasks[idx]
               short == EstimateOf(t) - ScheduledIn(plan, t["title"])
               next_session == IF max_session < short THEN max_session ELSE short
           IN  short > 0 => (current >= DueOf(t) \/ current + next_session > DueOf(t))

\* one task was cut short after a first block, another was scheduled in full
C5_Witness ==
    /\ pc = "returned"
    /\ \E i \in DOMAIN tasks :
           /\ ScheduledIn(result, tasks[i]["title"]) > 0
           /\ ScheduledIn(result, tasks[i]["title"]) < EstimateOf(tasks[i])
    /\ \E i \in DOMAIN tasks :
           /\ EstimateOf(tasks[i]) > max_session
           /\ ScheduledIn(result, tasks[i]["title"]) = EstimateOf(tasks[i])

\* C6: with a valid profile a run that has started returns, and every iteration
\* of the while loop that does not leave the loop moves the cursor forward by
\* at least the session it placed plus 10 minutes.
C6_Terminates ==
    /\ (pc \in {"for", "while"} /\ ValidProfile) ~> (pc = "returned")
    /\ [][(ValidProfile /\ pc = "while" /\ pc' = "while") =>
              /\ Len(plan') = Len(plan) + 1
              /\ current' >= current + plan'[Len(plan')]["minutes"] + 600]_vars

\* a run returned although the minutes left of a task could not be placed before its due
C6_Witness ==
    /\ pc = "returned"
    /\ ValidProfile
    /\ \E i \in DOMAIN tasks :
           /\ ScheduledIn(result, tasks[i]["title"]) < EstimateOf(tasks[i])
           /\ now < DueOf(tasks[i])
    /\ Len(result) >= 2

\* C7: blocks follow the order (due ascending, priority descending) of their
\* tasks, in the output and in time.
C7_TaskOrder ==
    \A i, j \in DOMAIN plan :
        LET a == TaskOf(plan[i]["title"])
            b == TaskOf(plan[j]["title"])
        IN  (DueOf(a) < DueOf(b) \/ (DueOf(a) = DueOf(b) /\ PriorityOf(a) > PriorityOf(b)))
                => (i < j /\ StartOf(plan[i]) < StartOf(plan[j]))

\* the list gave the lower priority first (one by default), the same due, and
\* both tasks got blocks; and a list gave the later due first
C7_Witness ==
    /\ pc = "returned"
    /\ Len(tasks) = 2
    /\ HasBlock(tasks[1]["title"])
    /\ HasBlock(tasks[2]["title"])
    /\ DueOf(tasks[1]) = DueOf(tasks[2])
    /\ PriorityOf(tasks[1]) < PriorityOf(tasks[2])
    /\ "priority" \notin DOMAIN tasks[1]

\* C9: a profile with daily_end_hour <= daily_start_hour or an hour outside
\* 0..23 never has a block emitted.
C9_InvalidProfileEmitsNothing ==
    (daily_end <= daily_start \/ daily_start \notin 0..23 \/ daily_end \notin 0..23)
        => plan = << >>

\* C10: when the due of any task of the list is not a parseable timestamp, the
\* run raises and no block is emitted or returned.
C10_MalformedDueAborts ==
    (\E i \in DOMAIN tasks : ~IsIsoText(tasks[i]["due"])) =>
        (pc = "raised" /\ plan = << >> /\ result = << >>)

\* the malformed task stood last, behind a task that could have been scheduled
C10_Witness ==
    /\ pc = "raised"
    /\ Len(tasks) = 2
    /\ IsIsoText(tasks[1]["due"])
    /\ ~IsIsoText(tasks[2]["due"])
    /\ now + EstimateOf(tasks[1]) < DueOf(tasks[1])
    /\ ValidProfile
    /\ HourOf(now) >= daily_start /\ HourOf(now) < daily_end

----------------------------------------------------------------------------
(* Properties of the plan store *)

C8_Expected(blocks, n, h) ==
    SelectSeq(blocks, LAMBDA b : n <= StartOf(b) /\ StartOf(b) <= n + h * 3600)

----------------------------------------------------------------------------
(* Properties of the cursor *)

\* C14: from the moment the cursor is set to now, no step of the run (snap,
\* emission with its rest gap, abandoning a task, taking the next task) moves
\* it backwards, and taking the next task leaves it where it was.
C14_CursorMonotone ==
    [][(pc \in {"for", "while"}) => (current' >= current /\ (pc = "for" => current' = current))]_vars

\* a run of two tasks that snapped the cursor, emitted blocks for both tasks
\* and left one of them unfinished
C14_Witness ==
    /\ pc = "returned"
    /\ Len(tasks) = 2
    /\ HasBlock(tasks[1]["title"])
    /\ HasBlock(tasks[2]["title"])
    /\ StartOf(result[1]) > now
    /\ \E i \in DOMAIN tasks : ScheduledIn(result, tasks[i]["title"]) < EstimateOf(tasks[i])
    /\ current > StartOf(result[Len(result)])

\* C16: a task whose due is at or before the cursor when the loop guard is
\* tested leaves the loop with no block added, no error and the cursor where
\* it was; a task due at or before now has no block at all; and the for loop
\* always goes on to the next task.
C16_PastDueSkipped ==
    /\ [][(pc = "while" /\ fromisoformat(sorted_tasks[idx]["due"]) <= current) =>
              (pc' = "for" /\ plan' = plan /\ current' = current)]_vars
    /\ [][(pc = "for" /\ idx < Len(sorted_tasks)) => (pc' = "while" /\ idx' = idx + 1)]_vars
    /\ [](\A i \in DOMAIN tasks : DueOf(tasks[i]) <= now => ~HasBlock(tasks[i]["title"]))

\* the first task in sorted order was due before now, outside the window, and
\* the task after it got its blocks
C16_Witness ==
    /\ pc = "returned"
    /\ Len(sorted_tasks) = 2
    /\ DueOf(sorted_tasks[1]) <= now
    /\ EstimateOf(sorted_tasks[1]) > 0
    /\ HourOf(now) >= daily_end
    /\ ~HasBlock(sorted_tasks[1]["title"])
    /\ HasBlock(sorted_tasks[2]["title"])

\* C20: no block starts before now, the time at which the run began.
C20_NoBlockInThePast ==
    \A i \in DOMAIN plan : StartOf(plan[i]) >= now

\* blocks were returned for a now inside the window, with seconds, and the
\* first block starts at now itself
C20_Witness ==
    /\ pc = "returned"
    /\ Len(result) >= 2
    /\ StartOf(result[1]) = now
    /\ now % 60 # 0

\* the cursor after the window rule of lines 97-102, written out by cases
ExpectedCursor(c) ==
    LET h == (c \div 3600) % 24
        midnight == (c \div 86400) * 86400
    IN  CASE h < daily_start -> midnight + daily_start * 3600
          [] ~(h < daily_start) /\ h >= daily_end -> midnight + 86400 + daily_start * 3600
          [] OTHER -> c

NextSession == IF max_session < remaining THEN max_session ELSE remaining

\* C15: when the session computed at the (snapped) cursor would end after due,
\* the iteration leaves the loop with no block added and with the cursor at
\* the place where that session was computed; the for loop hands this cursor
\* on unchanged, and every block added belongs to the task whose turn it is,
\* so the abandoned task gets no later block.
C15_AbandonOnOverrun ==
    /\ [][(/\ pc = "while" /\ remaining > 0 /\ current < due
            /\ pc' # "raised"
            /\ ExpectedCursor(current) + NextSession > due) =>
              (pc' = "for" /\ plan' = plan /\ current' = ExpectedCursor(current))]_vars
    /\ [][pc = "for" => (current' = current /\ plan' = plan /\ idx' >= idx)]_vars
    /\ [][plan' # plan =>
              /\ idx' = idx
              /\ Len(plan') = Len(plan) + 1
              /\ SubSeq(plan', 1, Len(plan)) = plan
              /\ plan'[Len(plan')]["title"] = sorted_tasks[idx]["title"]]_vars

\* a task was abandoned after a first block, with minutes left and the cursor
\* still before its due, and another task was waiting
C15_Witness ==
    /\ pc = "for"
    /\ idx >= 1
    /\ idx < Len(sorted_tasks)
    /\ remaining > 0
    /\ current < due
    /\ HasBlock(sorted_tasks[idx]["title"])

\* the sessions of a task, from the plan alone
C17_Sessions ==
    /\ \A i \in DOMAIN plan :
           LET t == TaskOf(plan[i]["title"])
               left == EstimateOf(t) - ScheduledIn(SubSeq(plan, 1, i - 1), t["title"])
           IN  plan[i]["minutes"] = (IF max_session < left THEN max_session ELSE left)
    /\ (pc = "while" /\ plan # << >> /\ plan[Len(plan)]["title"] = sorted_tasks[idx]["title"])
           => current = EndOf(plan[Len(plan)]) + 600
    /\ \A k \in DOMAIN tasks :
           LET t == tasks[k]
               mine == SelectSeq(plan, LAMBDA b : b["title"] = t["title"])
           IN  (EstimateOf(t) > 0 /\ ScheduledIn(plan, t["title"]) = EstimateOf(t)) =>
                  /\ Len(mine) = (EstimateOf(t) + max_session - 1) \div max_session
                  /\ \A j \in 1..(Len(mine) - 1) : mine[j]["minutes"] = max_session
                  /\ mine[Len(mine)]["minutes"] = EstimateOf(t) - (Len(mine) - 1) * max_session

\* the run of the example: 60 minutes, sessions of 50, now 09:00, due 12:00
C17_ExampleRun ==
    /\ pc = "returned"
    /\ now = At(0, 9, 0, 0)
    /\ profile = << >>
    /\ Len(tasks) = 1
    /\ EstimateOf(tasks[1]) = 3600
    /\ DueOf(tasks[1]) = At(0, 12, 0, 0)

\* C17 (as amended): each block lasts min(max_session_minutes, remaining), the
\* cursor after it is its end + 10 minutes, a task scheduled in full has
\* ceil(E / max_session_minutes) blocks, all full but the last; the example
\* gives [09:00, 09:50) and [10:00, 10:10).
C17_SessionsAndGap ==
    /\ C17_Sessions
    /\ C17_ExampleRun =>
           /\ Len(result) = 2
           /\ StartOf(result[1]) = At(0, 9, 0, 0) /\ EndOf(result[1]) = At(0, 9, 50, 0)
           /\ StartOf(result[2]) = At(0, 10, 0, 0) /\ EndOf(result[2]) = At(0, 10, 10, 0)

\* C17 (as stated): the same, with the example giving [09:00, 09:50) and
\* [10:40, 10:50).
C17_AsStated ==
    /\ C17_Sessions
    /\ C17_ExampleRun =>
           /\ Len(result) = 2
           /\ StartOf(result[1]) = At(0, 9, 0, 0) /\ EndOf(result[1]) = At(0, 9, 50, 0)
           /\ StartOf(result[2]) = At(0, 10, 40, 0) /\ EndOf(result[2]) = At(0, 10, 50, 0)

C17_Witness ==
    /\ C17_ExampleRun
    /\ Len(result) = 2
    /\ result[2]["minutes"] = 600

C19_BlockShape ==
    \A i \in DOMAIN plan :
        /\ StartOf(plan[i]) < EndOf(plan[i])
        /\ plan[i]["minutes"] = EndOf(plan[i]) - StartOf(plan[i])
        /\ plan[i]["minutes"] > 0
        /\ plan[i]["minutes"] % 60 = 0

----------------------------------------------------------------------------
(* Properties of the stores *)

\* C11: the stored plan is the argument of the most recent save_plan call (the
\* empty list before the first), whatever other calls came in between, and
\* only save_plan changes it.
C11_PlanReplaced ==
    /\ [](USER_STATE["plans"] = plan_arg)
    /\ [][last_call' # "save_plan" => USER_STATE'["plans"] = USER_STATE["plans"]]_vars

\* a query had returned a block of an earlier plan, then another non-empty plan
\* was saved over it, with tasks and a profile stored and a run made
C11_Witness ==
    /\ q_pc = "returned"
    /\ upcoming # << >>
    /\ USER_STATE["plans"] # << >>
    /\ \A i \in DOMAIN upcoming : \A j \in DOMAIN USER_STATE["plans"] :
           upcoming[i] # USER_STATE["plans"][j]
    /\ USER_STATE["tasks"] # << >>
    /\ USER_STATE["profile"] # << >>
    /\ pc = "returned"

\* C12: no step of a generate_schedule call changes USER_STATE; the call starts
\* with the task list and the profile it was given, in the order given, and
\* keeps them as they are while it runs.
C12_NoSideEffects ==
    [][last_call' = "generate_schedule" =>
          /\ USER_STATE' = USER_STATE
          /\ (pc \in {"for", "while"}) => (tasks' = tasks /\ profile' = profile)
          /\ (pc = "idle" /\ pc' # "idle") =>
                 (tasks' = USER_STATE["tasks"] /\ profile' = USER_STATE["profile"])]_vars

\* a run returned blocks for a stored list that was not in sorted order, with
\* a profile and a plan stored
C12_Witness ==
    /\ pc = "returned"
    /\ last_call = "generate_schedule"
    /\ Len(USER_STATE["tasks"]) = 2
    /\ DueOf(USER_STATE["tasks"][1]) > DueOf(USER_STATE["tasks"][2])
    /\ sorted_tasks # USER_STATE["tasks"]
    /\ Len(result) >= 2
    /\ USER_STATE["profile"] # << >>
    /\ USER_STATE["plans"] # << >>

ProfileKeys == {"daily_start_hour", "daily_end_hour", "max_session_minutes"}

\* C13: a save_profile call sets the fields it supplies and leaves the others
\* as they were, present or absent; no other call changes the profile; and a
\* run reads a field that is absent from the stored profile as 8, 22 and 50.
C13_ProfileMerge ==
    /\ [][last_call' = "save_profile" =>
              \A k \in ProfileKeys :
                  LET old == USER_STATE["profile"]
                      new == USER_STATE'["profile"]
                  IN  IF k \in DOMAIN preferences'
                      THEN k \in DOMAIN new /\ new[k] = preferences'[k]
                      ELSE /\ (k \in DOMAIN new) = (k \in DOMAIN old)
                           /\ k \in DOMAIN old => new[k] = old[k]]_vars
    /\ [][last_call' # "save_profile" => USER_STATE'["profile"] = USER_STATE["profile"]]_vars
    /\ [](pc \in {"for", "while", "returned"} =>
              /\ "daily_start_hour" \notin DOMAIN USER_STATE["profile"] => daily_start = 8
              /\ "daily_end_hour" \notin DOMAIN USER_STATE["profile"] => daily_end = 22
              /\ "max_session_minutes" \notin DOMAIN USER_STATE["profile"] => max_session = 50 * 60)

\* max_session_minutes was kept from an earlier call, daily_start_hour was
\* overwritten by a later one, daily_end_hour was never supplied, and a run
\* returned blocks under this profile
C13_Witness ==
    /\ pc = "returned"
    /\ result # << >>
    /\ DOMAIN USER_STATE["profile"] = {"daily_start_hour", "max_session_minutes"}
    /\ USER_STATE["profile"]["daily_start_hour"] = 9
    /\ USER_STATE["profile"]["max_session_minutes"] = 45
    /\ DOMAIN preferences = {"daily_start_hour"}
    /\ daily_end = 22

====
